---- MODULE Spec2Model ----
(***************************************************************************)
(* Model of the document chunking and retrieval core of LexAI-Scholar:     *)
(*   backend/pdf_service.py            PDFProcessor (cleaning, chunking)    *)
(*   backend/vector_service_openai.py  VectorService (store/search/delete)  *)
(*                                                                         *)
(* A text is a sequence of one-character strings.  chunk_size and          *)
(* chunk_overlap are attributes of the PDFProcessor object and are state    *)
(* variables here; they range over small values so that every path of the  *)
(* chunker is exercised by short texts.  The look-ahead of the hard-split   *)
(* routine (200 characters in the source) is scaled the same way.           *)
(***************************************************************************)
EXTENDS Integers, Sequences, FiniteSets, TLC

\* ------------------------------------------------------------------ bounds
MaxTextLen   == 6      \* longest raw input text
MaxChunkSize == 3      \* chunk_size ranges over 2..MaxChunkSize
MaxOverlap   == 2      \* chunk_overlap ranges over 1..MaxOverlap, below chunk_size
LookAhead    == 2      \* look-ahead window of the hard split (200 in the source)

\* ------------------------------------------------------------ characters
Punct      == {".", "!", "?"}
Whitespace == {" ", "\n"}
Alphabet   == {"a", ".", " ", "\n"}

Min(S) == CHOOSE x \in S : \A y \in S : x <= y
Max(S) == CHOOSE x \in S : \A y \in S : x >= y

\* All texts of at most n characters.
Texts(n) == UNION {[1..k -> Alphabet] : k \in 0..n}

\* ------------------------------------------------- Python string helpers
\* s[a:b] for 0 <= a (Python clamps b to len(s)).
Slice(s, a, b) == SubSeq(s, a + 1, IF b < Len(s) THEN b ELSE Len(s))

\* str.strip(): drop leading and trailing whitespace.
Strip(s) ==
    LET keep == {i \in 1..Len(s) : s[i] \notin Whitespace}
    IN  IF keep = {} THEN <<>> ELSE SubSeq(s, Min(keep), Max(keep))

\* Length of the run of character c at the head of s.
RECURSIVE RunLen(_, _)
RunLen(s, c) ==
    IF s = <<>> \/ Head(s) # c THEN 0 ELSE 1 + RunLen(Tail(s), c)

\* Length of the run of whitespace at the head of s.
RECURSIVE WsRunLen(_)
WsRunLen(s) ==
    IF s = <<>> \/ Head(s) \notin Whitespace THEN 0 ELSE 1 + WsRunLen(Tail(s))

\* re.sub(r'\n{3,}', '\n\n', s)
RECURSIVE CollapseNewlines(_)
CollapseNewlines(s) ==
    IF s = <<>> THEN <<>>
    ELSE IF Head(s) = "\n"
         THEN LET n == RunLen(s, "\n")
              IN  (IF n >= 3 THEN <<"\n", "\n">> ELSE SubSeq(s, 1, n))
                  \o CollapseNewlines(SubSeq(s, n + 1, Len(s)))
         ELSE <<Head(s)>> \o CollapseNewlines(Tail(s))

\* re.sub(r' {2,}', ' ', s)
RECURSIVE CollapseSpaces(_)
CollapseSpaces(s) ==
    IF s = <<>> THEN <<>>
    ELSE IF Head(s) = " "
         THEN LET n == RunLen(s, " ")
              IN  <<" ">> \o CollapseSpaces(SubSeq(s, n + 1, Len(s)))
         ELSE <<Head(s)>> \o CollapseSpaces(Tail(s))

\* s.split('\n'): the lines of s, empty ones kept.
RECURSIVE SplitLines(_)
SplitLines(s) ==
    IF s = <<>> THEN << <<>> >>
    ELSE LET r == SplitLines(Tail(s))
         IN  IF Head(s) = "\n" THEN << <<>> >> \o r
             ELSE << <<Head(s)>> \o Head(r) >> \o Tail(r)

\* '\n'.join(lines)
RECURSIVE JoinLines(_)
JoinLines(lines) ==
    IF Len(lines) = 0 THEN <<>>
    ELSE IF Len(lines) = 1 THEN lines[1]
    ELSE lines[1] \o <<"\n">> \o JoinLines(Tail(lines))

\* --------------------------------------------------------- PDFProcessor
\* _clean_text
CleanText(s) ==
    LET t1    == CollapseNewlines(s)
        t2    == CollapseSpaces(t1)
        lines == SplitLines(t2)
    IN  JoinLines([i \in 1..Len(lines) |-> Strip(lines[i])])

\* re.split(r'\n\n+', s)
RECURSIVE ReSplitBlank(_)
ReSplitBlank(s) ==
    IF s = <<>> THEN << <<>> >>
    ELSE LET n == RunLen(s, "\n")
         IN  IF n >= 2
             THEN << <<>> >> \o ReSplitBlank(SubSeq(s, n + 1, Len(s)))
             ELSE LET r == ReSplitBlank(Tail(s))
                  IN  << <<Head(s)>> \o Head(r) >> \o Tail(r)

\* _split_into_paragraphs
SplitIntoParagraphs(s) ==
    LET ps == ReSplitBlank(s)
    IN  SelectSeq([i \in 1..Len(ps) |-> Strip(ps[i])], LAMBDA p : p # <<>>)

\* _create_chunk (the copied document metadata is left out)
CreateChunk(txt, id, start, end) ==
    [chunk_id |-> id, text |-> txt, start_char |-> start, end_char |-> end,
     chunk_length |-> Len(txt)]

\* _find_sentence_boundary: the ends of the matches of [.!?]\s+ in
\* txt[start:min(end, len(txt))], as offsets into txt.
SentenceEnds(txt, start, end) ==
    LET search == Slice(txt, start, end)
    IN  {start + i + WsRunLen(SubSeq(search, i + 1, Len(search))) :
            i \in {j \in 1..Len(search) - 1 :
                      search[j] \in Punct /\ search[j + 1] \in Whitespace}}

FindSentenceBoundary(txt, start, end) ==
    IF start >= end \/ start >= Len(txt) THEN end
    ELSE LET ends == SentenceEnds(txt, start, end)
         IN  IF ends # {} THEN Max(ends)
             ELSE IF end < Len(txt) THEN end ELSE Len(txt)


\* chunk_text, line 99: the text carried over into the next chunk.
OverlapText(cur, overlap) ==
    IF Len(cur) > overlap THEN SubSeq(cur, Len(cur) - overlap + 1, Len(cur)) ELSE cur

\* chunk_text, line 101: current_start after a chunk was emitted; cur is the
\* new current_chunk (overlap_text + " " + para).
StartAfterEmit(start, cur, overlap_text, para) ==
    start + Len(cur) - Len(overlap_text) - Len(para)

\* ChunkIdAfterSplit counting one chunk for the whole hard split.
ChunkIdAfterSplitOne(id, subs) == id + 1

\* chunk_text, line 106: chunk_id after the sub-chunks of a hard split.
ChunkIdAfterSplit(id, subs) == id + Len(subs)

\* FinalChunks without the trailing flush of the buffer.
FinalChunksDropped(cs, cur, id, start) == cs

\* FinalChunks without the test for a blank buffer.
FinalChunksUnguarded(cs, cur, id, start) ==
    Append(cs, CreateChunk(Strip(cur), id, start, start + Len(cur)))

\* chunk_text, lines 117-124: the remaining buffer is emitted unless blank.
FinalChunks(cs, cur, id, start) ==
    IF Strip(cur) # <<>>
    THEN Append(cs, CreateChunk(Strip(cur), id, start, start + Len(cur)))
    ELSE cs

\* CutEnd with a look-ahead window of twice the length.
CutEndWide(para, start, size) ==
    LET end == start + size
    IN  IF end < Len(para)
        THEN LET sentence_end ==
                   FindSentenceBoundary(para, end,
                       IF end + 2 * LookAhead < Len(para)
                       THEN end + 2 * LookAhead ELSE Len(para))
             IN  IF sentence_end > end THEN sentence_end ELSE end
        ELSE end

\* _split_large_paragraph, lines 151-156: the end of the cut starting at start.
CutEnd(para, start, size) ==
    LET end == start + size
    IN  IF end < Len(para)
        THEN LET sentence_end ==
                   FindSentenceBoundary(para, end,
                       IF end + LookAhead < Len(para) THEN end + LookAhead ELSE Len(para))
             IN  IF sentence_end > end THEN sentence_end ELSE end
        ELSE end

\* NextCutStart leaving one character out between two cuts.
NextCutStartSkipping(end, overlap) == end + 1

\* NextCutStart stepping back by the whole cut when it was not extended.
NextCutStartWholeCut(end, overlap) == end - (overlap + 1)

\* _split_large_paragraph, line 170: the start of the next cut.
NextCutStart(end, overlap) == end - overlap

\* ------------------------------------------------------------------ state
VARIABLES
    pc,             \* position in chunk_text: "call", "loop", "split", "done"
    text,           \* chunk_text's text (the cleaned text once past line 79)
    chunk_size,     \* self.chunk_size
    chunk_overlap,  \* self.chunk_overlap
    paragraphs,     \* chunk_text's paragraphs
    para_idx,       \* index of the paragraph the for loop is at (1-based)
    chunks,         \* chunk_text's chunks
    chunk_id,       \* chunk_text's chunk_id
    current_chunk,  \* chunk_text's current_chunk
    current_start,  \* chunk_text's current_start
    split_start,    \* _split_large_paragraph's start
    sub_chunks,     \* _split_large_paragraph's chunks
    sub_chunk_id    \* _split_large_paragraph's chunk_id

chunkVars == <<pc, text, chunk_size, chunk_overlap, paragraphs, para_idx, chunks,
               chunk_id, current_chunk, current_start, split_start, sub_chunks,
               sub_chunk_id>>

\* VectorService (vector_service_openai.py) and the index it talks to.
VARIABLES
    index,          \* the Pinecone index: vector id -> stored vector
    now,            \* int(time.time())
    ingest,         \* the store_document_chunks call in progress, if any
    ret             \* the last call that returned, with its arguments and result

vecVars == <<index, now, ingest, ret>>

\* The endpoints of main.py and the relational store they talk to.
VARIABLES
    doc_table,            \* the Supabase table "documents": document id -> owner
    workspace_documents,  \* the documents shared with the users' workspace
    upload,               \* the upload_pdf request in progress, if any
    resp                  \* the last response an endpoint returned

appVars == <<doc_table, workspace_documents, upload, resp>>

vars == <<chunkVars, vecVars, appVars>>

\* The call chunk_text(text, metadata) on a PDFProcessor whose chunk_size and
\* chunk_overlap are any values with 1 <= chunk_overlap < chunk_size.
ChunkInit ==
    /\ pc = "call"
    /\ text \in Texts(MaxTextLen)
    /\ chunk_size \in 2..MaxChunkSize
    /\ chunk_overlap \in 1..MaxOverlap
    /\ chunk_overlap < chunk_size
    /\ paragraphs = <<>>
    /\ para_idx = 1
    /\ chunks = <<>>
    /\ chunk_id = 0
    /\ current_chunk = <<>>
    /\ current_start = 0
    /\ split_start = 0
    /\ sub_chunks = <<>>
    /\ sub_chunk_id = 0

\* chunk_text, lines 76-85.
ChunkTextBegin ==
    /\ pc = "call"
    /\ IF text = <<>>
       THEN /\ pc' = "done"
            /\ UNCHANGED <<text, paragraphs>>
       ELSE /\ pc' = "loop"
            /\ text' = CleanText(text)
            /\ paragraphs' = SplitIntoParagraphs(text')
    /\ UNCHANGED <<chunk_size, chunk_overlap, para_idx, chunks, chunk_id,
                   current_chunk, current_start, split_start, sub_chunks,
                   sub_chunk_id>>
    /\ UNCHANGED <<vecVars, appVars>>

\* chunk_text, lines 87-115: one iteration of the loop over the paragraphs.
\* The call of _split_large_paragraph (line 104) moves to "split".
ChunkTextPara ==
    /\ pc = "loop"
    /\ para_idx <= Len(paragraphs)
    /\ LET para == paragraphs[para_idx] IN
       IF Len(current_chunk) + Len(para) > chunk_size
       THEN IF Strip(current_chunk) # <<>>
            THEN LET overlap_text == OverlapText(current_chunk, chunk_overlap)
                     new_chunk    == overlap_text \o <<" ">> \o para
                 IN  /\ chunks' = Append(chunks,
                            CreateChunk(Strip(current_chunk), chunk_id, current_start,
                                        current_start + Len(current_chunk)))
                     /\ chunk_id' = chunk_id + 1
                     /\ current_chunk' = new_chunk
                     /\ current_start' =
                            StartAfterEmit(current_start, new_chunk, overlap_text, para)
                     /\ para_idx' = para_idx + 1
                     /\ UNCHANGED <<pc, split_start, sub_chunks, sub_chunk_id>>
            ELSE IF Len(para) > chunk_size
                 THEN /\ pc' = "split"
                      /\ split_start' = 0
                      /\ sub_chunks' = <<>>
                      /\ sub_chunk_id' = chunk_id
                      /\ UNCHANGED <<chunks, chunk_id, current_chunk, current_start,
                                     para_idx>>
                 ELSE /\ current_chunk' = para
                      /\ para_idx' = para_idx + 1
                      /\ UNCHANGED <<pc, chunks, chunk_id, current_start, split_start,
                                     sub_chunks, sub_chunk_id>>
       ELSE /\ current_chunk' = (IF current_chunk # <<>>
                                 THEN current_chunk \o <<" ">> \o para
                                 ELSE para)
            /\ para_idx' = para_idx + 1
            /\ UNCHANGED <<pc, chunks, chunk_id, current_start, split_start,
                           sub_chunks, sub_chunk_id>>
    /\ UNCHANGED <<text, chunk_size, chunk_overlap, paragraphs>>
    /\ UNCHANGED <<vecVars, appVars>>

\* _split_large_paragraph, lines 150-170: one iteration of the while loop.
SplitIter ==
    /\ pc = "split"
    /\ LET para == paragraphs[para_idx] IN
       /\ split_start < Len(para)
       /\ LET end == CutEnd(para, split_start, chunk_size)
              txt == Strip(Slice(para, split_start, end))
          IN  /\ IF txt # <<>>
                 THEN /\ sub_chunks' = Append(sub_chunks,
                              CreateChunk(txt, sub_chunk_id, current_start + split_start,
                                          current_start + end))
                      /\ sub_chunk_id' = sub_chunk_id + 1
                 ELSE UNCHANGED <<sub_chunks, sub_chunk_id>>
              /\ split_start' = NextCutStart(end, chunk_overlap)
    /\ UNCHANGED <<pc, text, chunk_size, chunk_overlap, paragraphs, para_idx, chunks,
                   chunk_id, current_chunk, current_start>>
    /\ UNCHANGED <<vecVars, appVars>>

\* _split_large_paragraph, line 172, and chunk_text, lines 105-108: the while
\* loop is over, the sub-chunks are returned and appended.
SplitReturn ==
    /\ pc = "split"
    /\ split_start >= Len(paragraphs[para_idx])
    /\ chunks' = chunks \o sub_chunks
    /\ chunk_id' = ChunkIdAfterSplit(chunk_id, sub_chunks)
    /\ current_chunk' = <<>>
    /\ current_start' = current_start + Len(paragraphs[para_idx])
    /\ para_idx' = para_idx + 1
    /\ pc' = "loop"
    /\ split_start' = 0
    /\ sub_chunks' = <<>>
    /\ sub_chunk_id' = 0
    /\ UNCHANGED <<text, chunk_size, chunk_overlap, paragraphs>>
    /\ UNCHANGED <<vecVars, appVars>>

\* chunk_text, lines 117-126: the loop is over, the last chunk is emitted.
ChunkTextReturn ==
    /\ pc = "loop"
    /\ para_idx > Len(paragraphs)
    /\ chunks' = FinalChunks(chunks, current_chunk, chunk_id, current_start)
    /\ pc' = "done"
    /\ UNCHANGED <<text, chunk_size, chunk_overlap, paragraphs, para_idx, chunk_id,
                   current_chunk, current_start, split_start, sub_chunks,
                   sub_chunk_id>>
    /\ UNCHANGED <<vecVars, appVars>>



\* ------------------------------------------------- properties of chunk_text
\* p occurs in t as one contiguous substring.
Contains(t, p) ==
    \E a \in 0..(Len(t) - Len(p)) : SubSeq(t, a + 1, a + Len(p)) = p

\* The number of places at which p occurs in t.
Occurrences(t, p) ==
    Cardinality({a \in 0..(Len(t) - Len(p)) : SubSeq(t, a + 1, a + Len(p)) = p})

\* The paragraphs joined by single spaces: every chunk text is cut from it.
RECURSIVE JoinParagraphs(_)
JoinParagraphs(ps) ==
    IF Len(ps) = 0 THEN <<>>
    ELSE IF Len(ps) = 1 THEN ps[1]
    ELSE ps[1] \o <<" ">> \o JoinParagraphs(Tail(ps))

\* The spans [start_char, end_char) of cs[k..] cut from T and concatenated,
\* each span after the first without the prefix that lies before prevEnd.
RECURSIVE Reconstruct(_, _, _, _)
Reconstruct(cs, T, k, prevEnd) ==
    IF k > Len(cs) THEN <<>>
    ELSE LET s    == cs[k].start_char
             e    == cs[k].end_char
             from == IF k > 1 /\ prevEnd > s THEN prevEnd ELSE s
         IN  Slice(T, from, e) \o Reconstruct(cs, T, k + 1, e)

\* C1: the chunks hold chunk_id 0, 1, ..., N-1 in list order, and start_char
\* is strictly increasing along the list.
ChunkIdsSequential ==
    /\ \A i \in 1..Len(chunks) : chunks[i].chunk_id = i - 1
    /\ \A i \in 1..(Len(chunks) - 1) : chunks[i].start_char < chunks[i + 1].start_char

\* C1 witness: a finished call whose first paragraph was hard-split into at
\* least two sub-chunks and was followed by an aggregated chunk.
ChunkIdsSequentialWitness ==
    /\ pc = "done"
    /\ Len(paragraphs) >= 2
    /\ Len(paragraphs[1]) > chunk_size
    /\ Len(chunks) >= 3

\* The characters of s that are not whitespace, in order.
NonWhitespace(s) == SelectSeq(s, LAMBDA c : c \notin Whitespace)

\* C2: the chunks' spans of the cleaned text, concatenated in chunk_id order
\* without the overlapping prefixes, are the cleaned text.  Stated up to
\* whitespace, so that a lost paragraph separator or trailing newline does not
\* count: every non-whitespace character of the cleaned text must come back,
\* once and in order.
SpansReconstructText ==
    pc = "done" =>
        NonWhitespace(Reconstruct(chunks, text, 1, 0)) = NonWhitespace(text)

\* C3: every chunk has 0 <= start_char < end_char <= len(cleaned text) and its
\* text is the stripped span [start_char, end_char) of the cleaned text.
ChunkOffsetsAbsolute ==
    pc = "done" =>
        \A i \in 1..Len(chunks) :
            /\ 0 <= chunks[i].start_char
            /\ chunks[i].start_char < chunks[i].end_char
            /\ chunks[i].end_char <= Len(text)
            /\ chunks[i].text =
                   Strip(Slice(text, chunks[i].start_char, chunks[i].end_char))

\* C4: a paragraph longer than chunk_size always goes to the hard-split
\* routine, whatever was buffered before it.
LongParagraphIsHardSplit ==
    [][(/\ pc = "loop"
        /\ para_idx <= Len(paragraphs)
        /\ Len(paragraphs[para_idx]) > chunk_size) => pc' = "split"]_vars

\* C5 as claimed: a paragraph of at most chunk_size characters lies wholly in
\* exactly one chunk.  Chunk texts are cut from the joined paragraphs, so the
\* paragraphs that occur there once are the ones an occurrence identifies.
ShortParagraphInExactlyOneChunk ==
    pc = "done" =>
        \A i \in 1..Len(paragraphs) :
            (/\ Len(paragraphs[i]) <= chunk_size
             /\ Occurrences(JoinParagraphs(paragraphs), paragraphs[i]) = 1)
            => Cardinality({k \in 1..Len(chunks) :
                               Contains(chunks[k].text, paragraphs[i])}) = 1

\* C5 as amended: a paragraph of at most chunk_size characters lies wholly in
\* at least one chunk.
ShortParagraphInSomeChunk ==
    pc = "done" =>
        \A i \in 1..Len(paragraphs) :
            Len(paragraphs[i]) <= chunk_size
            => \E k \in 1..Len(chunks) : Contains(chunks[k].text, paragraphs[i])

\* C5 witness: a short paragraph that was emitted in one chunk and again, as
\* overlap, in the next.
ShortParagraphWitness ==
    /\ pc = "done"
    /\ \E i \in 1..Len(paragraphs) :
          /\ Len(paragraphs[i]) <= chunk_size
          /\ Occurrences(JoinParagraphs(paragraphs), paragraphs[i]) = 1
          /\ Cardinality({k \in 1..Len(chunks) :
                             Contains(chunks[k].text, paragraphs[i])}) = 2

\* C6: every sub-chunk of the hard split is at most chunk_size plus the
\* look-ahead window long.
SubChunkLengthBounded ==
    \A k \in 1..Len(sub_chunks) :
        Len(sub_chunks[k].text) <= chunk_size + LookAhead

\* C6 witness: a sub-chunk that fills the whole look-ahead window.
SubChunkLengthWitness ==
    /\ pc = "split"
    /\ \E k \in 1..Len(sub_chunks) :
          Len(sub_chunks[k].text) = chunk_size + LookAhead

\* C7: two paragraphs P1, P2 with len(P1) < chunk_size < len(P2) give exactly
\* two chunks, 0 and 1: chunk 0 is P1 and the start of P2, up to about
\* chunk_size characters; chunk 1 ends with the rest of P2, not all of it.
TwoParagraphScenario ==
    (/\ pc = "done"
     /\ Len(paragraphs) = 2
     /\ Len(paragraphs[1]) < chunk_size
     /\ Len(paragraphs[2]) > chunk_size)
    => /\ Len(chunks) = 2
       /\ chunks[1].chunk_id = 0
       /\ chunks[2].chunk_id = 1
       /\ Len(chunks[1].text) > Len(paragraphs[1])
       /\ SubSeq(chunks[1].text, 1, Len(paragraphs[1])) = paragraphs[1]
       /\ Len(chunks[1].text) <= chunk_size + LookAhead
       /\ ~ Contains(chunks[2].text, paragraphs[2])

\* C8: each sub-chunk of a hard split starts exactly chunk_size - chunk_overlap
\* after the sub-chunk before it.
SubChunkStartsAdvanceByStride ==
    \A k \in 2..Len(sub_chunks) :
        sub_chunks[k].start_char - sub_chunks[k - 1].start_char
            = chunk_size - chunk_overlap

\* C9: an empty text, or one of whitespace only, gives no chunk; the call runs
\* to its return without entering the hard split.
BlankTextNoChunks ==
    Strip(text) = <<>> =>
        /\ chunks = <<>>
        /\ sub_chunks = <<>>
        /\ pc \in {"call", "loop", "done"}

\* C9 witness: a finished call on a non-empty text of whitespace only.
BlankTextWitness ==
    /\ pc = "done"
    /\ text # <<>>
    /\ Strip(text) = <<>>
    /\ chunks = <<>>


\* ------------------------------------------------------- VectorService
\* generate_embedding / generate_embeddings_batch: the embedding backend maps
\* a text to a vector; texts and vectors are small numbers here.
Embed(t) == t

\* The index's cosine score of a stored vector for a query vector, in tenths.
Similarity(q, v) == IF q = v THEN 10 ELSE 5

\* _generate_chunk_id: md5 of "{user_id}_{filename}_{chunk_id}_{int(time.time())}",
\* taken as collision-free: the tuple that is hashed.
GenerateChunkId(user_id, filename, i, time) == <<user_id, filename, i, time>>

\* store_document_chunks, lines 110-131: the vectors built from the chunks and
\* their embeddings (zip stops at the shorter list).
BuildVectors(cs, embeddings, user_id, document_id, time) ==
    LET n == IF Len(cs) < Len(embeddings) THEN Len(cs) ELSE Len(embeddings)
    IN  [i \in 1..n |->
            [id          |-> GenerateChunkId(user_id, cs[i].filename, i - 1, time),
             values      |-> embeddings[i],
             user_id     |-> user_id,
             document_id |-> document_id,
             filename    |-> cs[i].filename,
             chunk_id    |-> i - 1,
             text        |-> cs[i].text]]

\* Upsert that stores every vector of the batch under a key of its own, never
\* replacing a vector the index holds.
UpsertAppending(idx, batch) ==
    LET key(j) == <<batch[j].id, Cardinality(DOMAIN idx) + j>>
        keys   == {key(j) : j \in 1..Len(batch)}
    IN  [k \in DOMAIN idx \cup keys |->
            IF k \in keys
            THEN batch[CHOOSE j \in 1..Len(batch) : key(j) = k]
            ELSE idx[k]]

\* index.upsert(vectors=batch): insert or replace by vector id.
Upsert(idx, batch) ==
    LET ids == {batch[i].id : i \in 1..Len(batch)}
    IN  [id \in DOMAIN idx \cup ids |->
            IF id \in ids
            THEN LET i == Max({j \in 1..Len(batch) : batch[j].id = id})
                 IN  batch[i]
            ELSE idx[id]]

\* DeleteByFilter filtering on document_id alone.
DeleteByFilterAnyUser(idx, document_id, user_id) ==
    LET keep == {id \in DOMAIN idx : idx[id].document_id # document_id}
    IN  [id \in keep |-> idx[id]]

\* index.delete(filter={document_id: {$eq}, user_id: {$eq}})
DeleteByFilter(idx, document_id, user_id) ==
    LET keep == {id \in DOMAIN idx :
                    ~(idx[id].document_id = document_id /\ idx[id].user_id = user_id)}
    IN  [id \in keep |-> idx[id]]

\* QueryMatches answering with every vector of the user, whatever top_k is.
QueryMatchesUncapped(idx, q, top_k, user_id) ==
    LET cands == {id \in DOMAIN idx : idx[id].user_id = user_id}
        n     == Cardinality(cands)
        score(id) == Similarity(q, idx[id].values)
    IN  {m \in [1..n -> cands] :
            /\ \A i, j \in 1..n : i # j => m[i] # m[j]
            /\ \A i \in 1..(n - 1) : score(m[i]) >= score(m[i + 1])}

\* QueryMatches without the filter on user_id.
QueryMatchesAnyUser(idx, q, top_k, user_id) ==
    LET cands == DOMAIN idx
        n     == IF top_k < Cardinality(cands) THEN top_k ELSE Cardinality(cands)
        score(id) == Similarity(q, idx[id].values)
    IN  {m \in [1..n -> cands] :
            /\ \A i, j \in 1..n : i # j => m[i] # m[j]
            /\ \A i \in 1..(n - 1) : score(m[i]) >= score(m[i + 1])
            /\ \A id \in cands :
                  (\A i \in 1..n : m[i] # id) => \A i \in 1..n : score(m[i]) >= score(id)}

\* index.query(vector, top_k, filter={user_id: {$eq}}): the possible answers,
\* each the top_k best-scoring vectors of the user, best first; vectors of
\* equal score come in any order.
QueryMatches(idx, q, top_k, user_id) ==
    LET cands == {id \in DOMAIN idx : idx[id].user_id = user_id}
        n     == IF top_k < Cardinality(cands) THEN top_k ELSE Cardinality(cands)
        score(id) == Similarity(q, idx[id].values)
    IN  {m \in [1..n -> cands] :
            /\ \A i, j \in 1..n : i # j => m[i] # m[j]
            /\ \A i \in 1..(n - 1) : score(m[i]) >= score(m[i + 1])
            /\ \A id \in cands :
                  (\A i \in 1..n : m[i] # id) => \A i \in 1..n : score(m[i]) >= score(id)}

\* KeepMatch comparing with the default min_score (0.3), not the caller's.
KeepMatchDefault(score, min_score) == score >= 3

\* search_similar, line 176: a match is kept when it reaches min_score.
KeepMatch(score, min_score) == score >= min_score

\* search_similar, lines 174-189: the matches that reach min_score, formatted.
FormatResults(idx, q, m, min_score) ==
    LET all == [i \in 1..Len(m) |->
                   [id          |-> m[i],
                    score       |-> Similarity(q, idx[m[i]].values),
                    text        |-> idx[m[i]].text,
                    filename    |-> idx[m[i]].filename,
                    chunk_id    |-> idx[m[i]].chunk_id,
                    document_id |-> idx[m[i]].document_id]]
    IN  SelectSeq(all, LAMBDA r : KeepMatch(r.score, min_score))


\* ------------------------------------------------ bounds of the index model
MaxVectors == 2        \* most vectors the index holds
MaxChunks  == 2        \* most chunks of one store_document_chunks call
MaxTopK    == 2        \* top_k ranges over 1..MaxTopK
MaxTime    == 1        \* the clock runs over 0..MaxTime
BatchSize  == 1        \* batch_size of store_document_chunks (100 in the source)

Users      == {"u1", "u2"}
Documents  == {"d1", "d2"}
Filenames  == {"f.pdf"}
TextTokens == {0, 1}             \* the chunk texts and the query texts
MinScores  == {0, 3, 9}          \* min_score in tenths

\* The chunk lists handed to store_document_chunks.
ChunkLists ==
    UNION {[1..n -> [text : TextTokens, filename : Filenames]] : n \in 0..MaxChunks}

NoCall ==
    [op |-> "none", user_id |-> "", document_id |-> "", query |-> 0, top_k |-> 0,
     min_score |-> 0, success |-> FALSE, error |-> FALSE, raised |-> FALSE,
     results |-> <<>>, vectors_stored |-> 0, chunks |-> 0]

IdleIngest ==
    [pc |-> "idle", user_id |-> "", document_id |-> "", vectors |-> <<>>,
     upserted |-> 0, chunks |-> 0]

\* The fields of ret: op and the arguments of the call (chunks, the length of
\* the chunk list of store_document_chunks); results, the list a search
\* returned; success and vectors_stored, the keys of a result dict;
\* error, an exception was caught inside the call; raised, the call raised.
VecInit ==
    /\ index = <<>>
    /\ now = 0
    /\ ingest = IdleIngest
    /\ ret = NoCall

NoResp ==
    [op |-> "none", user_id |-> "", document_id |-> "", success |-> FALSE,
     status |-> 0, failed |-> "", rollback |-> "", matches |-> {},
     query |-> 0, top_k |-> 0, min_score |-> 0, passed_top_k |-> 0,
     passed_min_score |-> 0, results |-> <<>>]

IdleUpload == [pc |-> "idle", user_id |-> "", document_id |-> ""]

\* The fields of resp: op, the endpoint, and user_id and document_id, the
\* authenticated user and the document of the request; status, the HTTP
\* status; success, the "success" key of the body; failed, the call whose
\* failure made upload_pdf give up ("store" or "metadata"); rollback, what the
\* delete_document call of upload_pdf's rollback did ("ok" or "failed", ""
\* when it was not called); matches, the ids of the vectors whose text
\* get_document_content returned; query, top_k and min_score, the fields of
\* the SearchRequest; passed_top_k and passed_min_score, the arguments
\* search_documents gave to search_similar; results, the list it returned.
AppInit ==
    /\ doc_table = <<>>
    /\ workspace_documents = {}
    /\ upload = IdleUpload
    /\ resp = NoResp

\* The caller takes the value the last call returned.  Until then ret holds
\* it and nothing else runs, so ret is read against the index of the call.
ReturnToCaller ==
    /\ ret # NoCall
    /\ ret' = NoCall
    /\ UNCHANGED <<index, now, ingest, chunkVars, appVars>>

\* time.time() advances.
Tick ==
    /\ ret = NoCall
    /\ now < MaxTime
    /\ now' = now + 1
    /\ UNCHANGED <<index, ingest, ret, chunkVars, appVars>>

\* store_document_chunks(chunks, user_id, document_id), lines 101-134: up to
\* the first upsert.  An empty chunk list and a failing embedding call both
\* return a failure.  The embedding backend answers with n embeddings, n the
\* number of texts or less; with no vector built the loop over the batches
\* is empty and the call returns success at once (lines 136-148).
StoreCall(cs, u, d) ==
    LET call == [NoCall EXCEPT !.op = "store_document_chunks", !.user_id = u,
                               !.document_id = d, !.chunks = Len(cs)]
    IN  /\ Cardinality(DOMAIN index) + Len(cs) <= MaxVectors
        /\ \/ /\ cs = <<>>
              /\ ret' = [call EXCEPT !.error = TRUE]
              /\ UNCHANGED ingest
           \/ /\ cs # <<>>
              /\ ret' = [call EXCEPT !.error = TRUE]
              /\ UNCHANGED ingest
           \/ /\ cs # <<>>
              /\ \E n \in 0..Len(cs) :
                    LET vs == BuildVectors(cs, [i \in 1..n |-> Embed(cs[i].text)],
                                           u, d, now)
                    IN  IF vs = <<>>
                        THEN /\ ret' = [call EXCEPT !.success = TRUE]
                             /\ UNCHANGED ingest
                        ELSE /\ ingest' = [pc |-> "upsert", user_id |-> u,
                                           document_id |-> d, vectors |-> vs,
                                           upserted |-> 0, chunks |-> Len(cs)]
                             /\ UNCHANGED ret
        /\ UNCHANGED <<index, now>>

\* A call of store_document_chunks by any caller.
StoreBegin ==
    /\ ret = NoCall
    /\ ingest.pc = "idle"
    /\ \E cs \in ChunkLists, u \in Users, d \in Documents : StoreCall(cs, u, d)
    /\ UNCHANGED <<chunkVars, appVars>>

\* StoreUpsertBatch that catches the failure of a batch and goes on with the
\* next one, returning success after the last.
StoreUpsertBatchContinuing ==
    /\ ret = NoCall
    /\ ingest.pc = "upsert"
    /\ LET vs    == ingest.vectors
           batch == SubSeq(vs, ingest.upserted + 1,
                           IF ingest.upserted + BatchSize < Len(vs)
                           THEN ingest.upserted + BatchSize ELSE Len(vs))
           total == ingest.upserted + Len(batch)
       IN  /\ \/ index' = Upsert(index, batch)
              \/ UNCHANGED index
           /\ IF total < Len(vs)
              THEN /\ ingest' = [ingest EXCEPT !.upserted = total]
                   /\ UNCHANGED ret
              ELSE /\ ingest' = IdleIngest
                   /\ ret' = [NoCall EXCEPT !.op = "store_document_chunks",
                                            !.user_id = ingest.user_id,
                                            !.document_id = ingest.document_id,
                                            !.chunks = ingest.chunks,
                                            !.success = TRUE,
                                            !.vectors_stored = Len(vs)]
    /\ UNCHANGED <<now, chunkVars, appVars>>

\* store_document_chunks, lines 136-155: one batch is upserted, or its upsert
\* fails and the call returns a failure; after the last batch the call
\* returns success.
StoreUpsertBatch ==
    /\ ret = NoCall
    /\ ingest.pc = "upsert"
    /\ LET vs    == ingest.vectors
           batch == SubSeq(vs, ingest.upserted + 1,
                           IF ingest.upserted + BatchSize < Len(vs)
                           THEN ingest.upserted + BatchSize ELSE Len(vs))
           total == ingest.upserted + Len(batch)
       IN  \/ /\ index' = Upsert(index, batch)
              /\ IF total < Len(vs)
                 THEN /\ ingest' = [ingest EXCEPT !.upserted = total]
                      /\ UNCHANGED ret
                 ELSE /\ ingest' = IdleIngest
                      /\ ret' = [NoCall EXCEPT !.op = "store_document_chunks",
                                               !.user_id = ingest.user_id,
                                               !.document_id = ingest.document_id,
                                               !.chunks = ingest.chunks,
                                               !.success = TRUE,
                                               !.vectors_stored = Len(vs)]
           \/ /\ ingest' = IdleIngest
              /\ ret' = [NoCall EXCEPT !.op = "store_document_chunks",
                                       !.user_id = ingest.user_id,
                                       !.document_id = ingest.document_id,
                                       !.chunks = ingest.chunks,
                                       !.error = TRUE]
              /\ UNCHANGED index
    /\ UNCHANGED <<now, chunkVars, appVars>>

\* search_similar, lines 164-193.  A failing embedding call or index query is
\* caught and the empty list is returned.
SearchSimilar ==
    /\ ret = NoCall
    /\ \E q \in TextTokens, u \in Users, k \in 1..MaxTopK, ms \in MinScores :
          LET call == [NoCall EXCEPT !.op = "search_similar", !.user_id = u,
                                     !.query = q, !.top_k = k, !.min_score = ms]
          IN  \/ \E m \in QueryMatches(index, Embed(q), k, u) :
                    ret' = [call EXCEPT
                               !.results = FormatResults(index, Embed(q), m, ms)]
              \/ ret' = [call EXCEPT !.error = TRUE]
    /\ UNCHANGED <<index, now, ingest, chunkVars, appVars>>

\* delete_document, lines 221-233.
DeleteDocument ==
    /\ ret = NoCall
    /\ \E d \in Documents, u \in Users :
          LET call == [NoCall EXCEPT !.op = "delete_document", !.user_id = u,
                                     !.document_id = d]
          IN  \/ /\ index' = DeleteByFilter(index, d, u)
                 /\ ret' = [call EXCEPT !.success = TRUE]
              \/ /\ ret' = [call EXCEPT !.error = TRUE]
                 /\ UNCHANGED index
    /\ UNCHANGED <<now, ingest, chunkVars, appVars>>

\* ------------------------------------------------- the endpoints of main.py
\* uuid.uuid4(): a document id that nothing holds.
FreshDocuments ==
    {d \in Documents :
        /\ d \notin DOMAIN doc_table
        /\ d \notin workspace_documents
        /\ \A id \in DOMAIN index : index[id].document_id # d}

\* upload_pdf, lines 496-513: the chunks of the PDF are handed to
\* store_document_chunks under a new document id.
UploadBegin ==
    /\ resp = NoResp
    /\ ret = NoCall
    /\ upload.pc = "idle"
    /\ ingest.pc = "idle"
    /\ \E cs \in ChunkLists, u \in Users, d \in FreshDocuments :
          /\ StoreCall(cs, u, d)
          /\ upload' = [pc |-> "store", user_id |-> u, document_id |-> d]
    /\ UNCHANGED <<doc_table, workspace_documents, resp, chunkVars>>

\* The store_document_chunks call of upload_pdf upserts a batch.
UploadUpsertBatch ==
    /\ resp = NoResp
    /\ upload.pc = "store"
    /\ StoreUpsertBatch

\* UploadFinish without the rollback: a failed insert of the document record
\* ends the request and leaves the vectors.
UploadFinishNoRollback ==
    /\ resp = NoResp
    /\ upload.pc = "store"
    /\ ret.op = "store_document_chunks"
    /\ LET u == upload.user_id
           d == upload.document_id
           r == [NoResp EXCEPT !.op = "upload_pdf", !.user_id = u, !.document_id = d]
       IN  IF ~ ret.success
           THEN /\ resp' = [r EXCEPT !.status = 500, !.failed = "store"]
                /\ UNCHANGED <<index, doc_table>>
           ELSE \/ /\ doc_table' = [x \in DOMAIN doc_table \cup {d} |->
                                        IF x = d THEN u ELSE doc_table[x]]
                   /\ resp' = [r EXCEPT !.status = 200, !.success = TRUE]
                   /\ UNCHANGED index
                \/ /\ resp' = [r EXCEPT !.status = 500, !.failed = "metadata"]
                   /\ UNCHANGED <<index, doc_table>>
    /\ ret' = NoCall
    /\ upload' = IdleUpload
    /\ UNCHANGED <<now, ingest, workspace_documents, chunkVars>>

\* upload_pdf, lines 515-581, after store_document_chunks returned: a failure
\* result ends the request with status 500; else the document record is
\* inserted, and when the insert fails delete_document is called on the
\* vector store (its result is not looked at) and the request ends with
\* status 500.
UploadFinish ==
    /\ resp = NoResp
    /\ upload.pc = "store"
    /\ ret.op = "store_document_chunks"
    /\ LET u == upload.user_id
           d == upload.document_id
           r == [NoResp EXCEPT !.op = "upload_pdf", !.user_id = u, !.document_id = d]
       IN  IF ~ ret.success
           THEN /\ resp' = [r EXCEPT !.status = 500, !.failed = "store"]
                /\ UNCHANGED <<index, doc_table>>
           ELSE \/ /\ doc_table' = [x \in DOMAIN doc_table \cup {d} |->
                                        IF x = d THEN u ELSE doc_table[x]]
                   /\ resp' = [r EXCEPT !.status = 200, !.success = TRUE]
                   /\ UNCHANGED index
                \/ /\ index' = DeleteByFilter(index, d, u)
                   /\ resp' = [r EXCEPT !.status = 500, !.failed = "metadata",
                                        !.rollback = "ok"]
                   /\ UNCHANGED doc_table
                \/ /\ resp' = [r EXCEPT !.status = 500, !.failed = "metadata",
                                        !.rollback = "failed"]
                   /\ UNCHANGED <<index, doc_table>>
    /\ ret' = NoCall
    /\ upload' = IdleUpload
    /\ UNCHANGED <<now, ingest, workspace_documents, chunkVars>>

\* The endpoint delete_document, lines 720-737: the vectors are deleted, then
\* the document record; a failure of either is not reported as an error.
DeleteDocumentEndpoint ==
    /\ resp = NoResp
    /\ ret = NoCall
    /\ \E u \in Users, d \in Documents, vector_ok \in BOOLEAN, record_ok \in BOOLEAN :
          /\ index' = IF vector_ok THEN DeleteByFilter(index, d, u) ELSE index
          /\ doc_table' =
                IF record_ok /\ d \in DOMAIN doc_table /\ doc_table[d] = u
                THEN [x \in DOMAIN doc_table \ {d} |-> doc_table[x]]
                ELSE doc_table
          /\ resp' = [NoResp EXCEPT !.op = "delete_document", !.user_id = u,
                                    !.document_id = d, !.status = 200,
                                    !.success = vector_ok]
    /\ UNCHANGED <<now, ingest, ret, workspace_documents, upload, chunkVars>>

\* The row-level security of the table "documents": a user reads the record
\* of a document they own or that is shared with their workspace.
CanRead(u, d) ==
    /\ d \in DOMAIN doc_table
    /\ (doc_table[d] = u \/ d \in workspace_documents)

\* search_by_filter({"document_id": d}, top_k = 10000): the vectors whose
\* document_id is d.
SearchByDocument(idx, d) == {id \in DOMAIN idx : idx[id].document_id = d}

\* The endpoint get_document_content, lines 793-845.  A failing
\* search_by_filter returns no matches and the endpoint answers with an empty
\* text.
GetDocumentContent ==
    /\ resp = NoResp
    /\ ret = NoCall
    /\ \E u \in Users, d \in Documents :
          LET r == [NoResp EXCEPT !.op = "get_document_content", !.user_id = u,
                                  !.document_id = d]
          IN  IF ~ CanRead(u, d)
              THEN resp' = [r EXCEPT !.status = 404]
              ELSE \/ resp' = [r EXCEPT !.status = 200, !.success = TRUE,
                                        !.matches = SearchByDocument(index, d)]
                   \/ resp' = [r EXCEPT !.status = 200, !.success = TRUE]
    /\ UNCHANGED <<vecVars, doc_table, workspace_documents, upload, chunkVars>>

\* SearchRequest, lines 149-152, and the defaults of search_documents, lines
\* 603-604.  Scores are whole tenths, so that score >= 0.25 is score >= 3.
DefaultTopK     == 10
DefaultMinScore == 3

\* Python's "x or default" on a number: 0 is falsy.
OrDefault(x, default) == IF x = 0 THEN default ELSE x

\* The endpoint search_documents, lines 583-615: search_similar is called
\* with request.top_k or 10 and request.min_score or 0.25, and its list is
\* returned (the empty list when search_similar caught a failure).
SearchDocuments ==
    /\ resp = NoResp
    /\ ret = NoCall
    /\ \E q \in TextTokens, u \in Users, k \in 1..MaxTopK, ms \in MinScores :
          LET top_k     == OrDefault(k, DefaultTopK)
              min_score == OrDefault(ms, DefaultMinScore)
              r == [NoResp EXCEPT !.op = "search_documents", !.user_id = u,
                                  !.status = 200, !.query = q, !.top_k = k,
                                  !.min_score = ms, !.passed_top_k = top_k,
                                  !.passed_min_score = min_score]
          IN  \/ \E m \in QueryMatches(index, Embed(q), top_k, u) :
                    resp' = [r EXCEPT
                                !.results = FormatResults(index, Embed(q), m, min_score)]
              \/ resp' = r
    /\ UNCHANGED <<vecVars, doc_table, workspace_documents, upload, chunkVars>>

\* WorkspaceService.share_document: a document is shared with the workspace.
ShareDocument ==
    /\ resp = NoResp
    /\ ret = NoCall
    /\ \E d \in DOMAIN doc_table :
          /\ d \notin workspace_documents
          /\ workspace_documents' = workspace_documents \cup {d}
    /\ UNCHANGED <<vecVars, doc_table, upload, resp, chunkVars>>

\* time.time() advances between the steps of the endpoints.
ClockTick ==
    /\ resp = NoResp
    /\ Tick

\* The client takes the response.  Until then resp holds it and nothing else
\* runs, so resp is read against the stores as the endpoint left them.
Respond ==
    /\ resp # NoResp
    /\ resp' = NoResp
    /\ UNCHANGED <<vecVars, doc_table, workspace_documents, upload, chunkVars>>

\* ------------------------------------------------------- specifications
\* A PDFProcessor and a VectorService on which no call is in progress.
ChunkIdle ==
    /\ pc = "done"
    /\ text = <<>>
    /\ chunk_size = MaxChunkSize
    /\ chunk_overlap = 1
    /\ paragraphs = <<>>
    /\ para_idx = 1
    /\ chunks = <<>>
    /\ chunk_id = 0
    /\ current_chunk = <<>>
    /\ current_start = 0
    /\ split_start = 0
    /\ sub_chunks = <<>>
    /\ sub_chunk_id = 0

\* Spec: one call of chunk_text, on any text.
Init == ChunkInit /\ VecInit /\ AppInit

Next ==
    \/ ChunkTextBegin
    \/ ChunkTextPara
    \/ SplitIter
    \/ SplitReturn
    \/ ChunkTextReturn

Spec == Init /\ [][Next]_vars

\* SpecSearch: any sequence of calls of the VectorService.
SearchInit == ChunkIdle /\ VecInit /\ AppInit

SearchNext ==
    \/ Tick
    \/ StoreBegin
    \/ StoreUpsertBatch
    \/ SearchSimilar
    \/ DeleteDocument
    \/ ReturnToCaller

SpecSearch == SearchInit /\ [][SearchNext]_vars

\* SpecApp: any sequence of requests to the endpoints of main.py.
AppNext ==
    \/ UploadBegin
    \/ UploadUpsertBatch
    \/ UploadFinish
    \/ DeleteDocumentEndpoint
    \/ GetDocumentContent
    \/ SearchDocuments
    \/ ShareDocument
    \/ ClockTick
    \/ Respond

SpecApp == SearchInit /\ [][AppNext]_vars

\* ---------------------------------------------- properties of search_similar
\* C10: every match search_similar returns has a score of at least the
\* caller's min_score, and when no vector of the owner reaches min_score the
\* call returns the empty list, not an error.
SearchRespectsMinScore ==
    ret.op = "search_similar" =>
        /\ \A i \in 1..Len(ret.results) : ret.results[i].score >= ret.min_score
        /\ (\A id \in DOMAIN index :
               index[id].user_id = ret.user_id
               => Similarity(Embed(ret.query), index[id].values) < ret.min_score)
           => (ret.results = <<>> /\ ~ ret.raised)

\* C10 witness: a search with min_score 0.9 that succeeded with no match while
\* the owner's best vector scores 0.5.
SearchMinScoreWitness ==
    /\ ret.op = "search_similar"
    /\ ret.min_score = 9
    /\ ~ ret.error
    /\ ~ ret.raised
    /\ ret.results = <<>>
    /\ \E id \in DOMAIN index : index[id].user_id = ret.user_id
    /\ \A id \in DOMAIN index :
          index[id].user_id = ret.user_id
          => Similarity(Embed(ret.query), index[id].values) = 5

\* C11: search_similar never returns more matches than the top_k it was
\* called with.
SearchAtMostTopK ==
    ret.op = "search_similar" => Len(ret.results) <= ret.top_k

\* C11 witness: a search with top_k = 1 that returned one match while two
\* vectors of the owner reach min_score.
SearchAtMostTopKWitness ==
    /\ ret.op = "search_similar"
    /\ ret.top_k = 1
    /\ Len(ret.results) = 1
    /\ Cardinality({id \in DOMAIN index :
                       /\ index[id].user_id = ret.user_id
                       /\ Similarity(Embed(ret.query), index[id].values)
                              >= ret.min_score}) = 2

\* The words of a text: text 0 is one word, text 1 is that word and another.
Words(t) == IF t = 0 THEN {"contract"} ELSE {"contract", "law"}

\* The re-ranking bonus overlap_ratio * 0.1 in hundredths, overlap_ratio being
\* the share of the query's words that occur in the text.
OverlapBonus(q, t) ==
    (10 * Cardinality(Words(q) \cap Words(t))) \div Cardinality(Words(q))

\* min(1.0, original_score + overlap_ratio * 0.1) in hundredths, for an
\* original score in tenths.
AdjustedScore(score, q, t) ==
    LET sum == 10 * score + OverlapBonus(q, t)
    IN  IF sum > 100 THEN 100 ELSE sum

\* C12: every returned match carries the score
\* min(1.0, original_score + overlap_ratio * 0.1), which lies between the
\* original score and 1.0, and the list is in descending order of it.
ResultsAreReRanked ==
    ret.op = "search_similar" =>
        LET original(i) == Similarity(Embed(ret.query), index[ret.results[i].id].values)
            adjusted(i) == AdjustedScore(original(i), ret.query, ret.results[i].text)
        IN  /\ \A i \in 1..Len(ret.results) :
                  /\ 10 * ret.results[i].score = adjusted(i)
                  /\ 10 * original(i) <= adjusted(i)
                  /\ adjusted(i) <= 100
            /\ \A i \in 1..(Len(ret.results) - 1) : adjusted(i) >= adjusted(i + 1)

\* C13: a search_similar call in which the embedding call or the index query
\* failed raises to its caller; it does not return a list.
SearchFailureSurfaced ==
    (ret.op = "search_similar" /\ ret.error) => ret.raised

\* The vectors of the index whose metadata user_id is u.
OwnVectors(idx, u) ==
    [id \in {x \in DOMAIN idx : idx[x].user_id = u} |-> idx[id]]

\* C15: search_similar for user A returns only vectors whose metadata user_id
\* is A, and what it returns is an answer to the same search on the index
\* without the vectors of the other users.
SearchIsOwnerScoped ==
    (ret.op = "search_similar" /\ ~ ret.error) =>
        LET own == OwnVectors(index, ret.user_id)
        IN  /\ \A i \in 1..Len(ret.results) :
                  /\ ret.results[i].id \in DOMAIN index
                  /\ index[ret.results[i].id].user_id = ret.user_id
            /\ ret.results \in
                  {FormatResults(own, Embed(ret.query), m, ret.min_score) :
                      m \in QueryMatches(own, Embed(ret.query), ret.top_k, ret.user_id)}

\* C15 witness: a search that returned a match to its owner while the index
\* holds a vector of another user that scores at least as high.
SearchIsOwnerScopedWitness ==
    /\ ret.op = "search_similar"
    /\ ret.results # <<>>
    /\ \E id \in DOMAIN index :
          /\ index[id].user_id # ret.user_id
          /\ Similarity(Embed(ret.query), index[id].values) >= ret.results[1].score

\* -------------------------------------------- properties of delete_document
\* C16: a delete_document(D, owner) that returns success leaves no vector with
\* document_id D and user_id owner in the index, and leaves every other
\* vector (other documents of the owner, vectors of other owners) as it was.
DeleteRemovesExactlyTheDocument ==
    [][(ret = NoCall /\ ret'.op = "delete_document" /\ ret'.success) =>
          LET hit(v) == v.document_id = ret'.document_id /\ v.user_id = ret'.user_id
          IN  /\ \A id \in DOMAIN index' : ~ hit(index'[id])
              /\ DOMAIN index' \subseteq DOMAIN index
              /\ \A id \in DOMAIN index :
                    ~ hit(index[id]) => (id \in DOMAIN index' /\ index'[id] = index[id])
      ]_vars

\* C16 witness: a successful delete after which the index still holds a vector
\* of another document of the same owner and a vector another owner stored
\* under the deleted document id.
DeleteRemovesExactlyWitness ==
    /\ ret.op = "delete_document"
    /\ ret.success
    /\ \E id \in DOMAIN index :
          index[id].user_id = ret.user_id /\ index[id].document_id # ret.document_id
    /\ \E id \in DOMAIN index :
          index[id].user_id # ret.user_id /\ index[id].document_id = ret.document_id

\* ------------------------------------- properties of store_document_chunks
\* The index already holds, for the owner and document of an ingestion, a
\* vector for every chunk of it (same filename, chunk_id and text).
AlreadyIngested(idx, vs) ==
    \A i \in 1..Len(vs) :
        \E id \in DOMAIN idx :
            /\ idx[id].user_id = vs[i].user_id
            /\ idx[id].document_id = vs[i].document_id
            /\ idx[id].filename = vs[i].filename
            /\ idx[id].chunk_id = vs[i].chunk_id
            /\ idx[id].text = vs[i].text

\* C17: ingesting a document that the index already holds (same owner, same
\* filename, same chunks) overwrites in place: no upsert of the second
\* ingestion changes the number of vectors in the index.
ReIngestKeepsVectorCount ==
    [][(ingest.pc = "upsert" /\ ingest' # ingest
           /\ AlreadyIngested(index, ingest.vectors)) =>
          Cardinality(DOMAIN index') = Cardinality(DOMAIN index)
      ]_vars

\* C17 as amended: a second ingestion of the same document (same owner, same
\* filename, same chunks) that runs in the clock second of the first computes
\* the same vector ids, so its upserts overwrite in place and the number of
\* vectors does not change.  (At now = 0 every vector in the index got its id
\* in the current second.)
ReIngestSameSecondKeepsVectorCount ==
    [][(ingest.pc = "upsert" /\ ingest' # ingest /\ now = 0
           /\ AlreadyIngested(index, ingest.vectors)) =>
          Cardinality(DOMAIN index') = Cardinality(DOMAIN index)
      ]_vars

\* C17 witness: a second ingestion of a document under way in the second of the
\* first: the call has built its vectors, the index holds a vector for each of
\* them from the first ingestion, and the next step upserts them.
ReIngestSameSecondWitness ==
    /\ ingest.pc = "upsert"
    /\ now = 0
    /\ ingest.vectors # <<>>
    /\ AlreadyIngested(index, ingest.vectors)
    /\ \A i \in 1..Len(ingest.vectors) : ingest.vectors[i].id \in DOMAIN index

\* C18: store_document_chunks sends its vectors in batches of at most
\* batch_size, in order, one per step: a step of the call writes only vectors
\* of the next batch; when that batch is not written the call ends there with
\* a failure result and sends nothing more; and a success result is returned
\* only after the last batch, with the count of all vectors.
BatchFailureFailsTheCall ==
    [][(ingest.pc = "upsert" /\ ingest' # ingest) =>
          LET vs      == ingest.vectors
              last    == IF ingest.upserted + BatchSize < Len(vs)
                         THEN ingest.upserted + BatchSize ELSE Len(vs)
              sent    == {vs[i].id : i \in (ingest.upserted + 1)..last}
              changed == {id \in DOMAIN index' :
                             id \notin DOMAIN index \/ index'[id] # index[id]}
              written == \A i \in (ingest.upserted + 1)..last :
                             vs[i].id \in DOMAIN index' /\ index'[vs[i].id] = vs[i]
          IN  /\ changed \subseteq sent
              /\ Cardinality(sent) <= BatchSize
              /\ DOMAIN index \subseteq DOMAIN index'
              /\ ~ written =>
                    /\ ingest' = IdleIngest
                    /\ ret'.op = "store_document_chunks"
                    /\ ~ ret'.success
              /\ ingest'.pc = "upsert" => ingest'.upserted = last /\ ret' = NoCall
              /\ ret'.success =>
                    /\ written
                    /\ last = Len(vs)
                    /\ ret'.vectors_stored = Len(vs)
      ]_vars

\* C18 witness: a store_document_chunks call that returned a failure while the
\* index holds a vector of its owner and document with chunk_id 0 and none
\* with chunk_id 1: the first batch was written and a later one failed.
BatchFailureWitness ==
    /\ ret.op = "store_document_chunks"
    /\ ret.error
    /\ ~ ret.success
    /\ LET mine == {id \in DOMAIN index :
                       /\ index[id].user_id = ret.user_id
                       /\ index[id].document_id = ret.document_id}
       IN  /\ \E id \in mine : index[id].chunk_id = 0
           /\ \A id \in mine : index[id].chunk_id = 0

\* ------------------------------------------------ properties of the endpoints
\* C14: no query issued for user A returns a vector whose metadata user_id is
\* not A.  Stated for the query of the document-content endpoint
\* (search_by_filter): every vector it returned is a vector of the
\* requesting user.
ContentQueryIsOwnerFiltered ==
    resp.op = "get_document_content" =>
        \A id \in resp.matches : index[id].user_id = resp.user_id

\* The index holds a vector with document_id d.
HoldsVectorsOf(idx, d) == \E id \in DOMAIN idx : idx[id].document_id = d

\* C19: when upload_pdf fails because store_document_chunks failed, the
\* vectors of the document are deleted: unless that delete itself failed, the
\* index holds no vector with the document_id of the failed upload.
FailedUploadLeavesNoVectors ==
    (resp.op = "upload_pdf" /\ resp.failed = "store" /\ resp.rollback # "failed")
        => ~ HoldsVectorsOf(index, resp.document_id)

\* C20: a document record is inserted only by an upload_pdf whose
\* store_document_chunks call returned success; an upload_pdf whose insert
\* failed has called delete_document on the vector store before it answers
\* (so that, when that delete worked, the index holds no vector of the
\* document) and answers with an error; and an upload_pdf that answers with
\* success has written the record.
MetadataWriteFollowsStoreAndRollsBack ==
    [][/\ \A d \in DOMAIN doc_table' \ DOMAIN doc_table :
             /\ ret.op = "store_document_chunks"
             /\ ret.success
             /\ ret.document_id = d
       /\ (resp'.op = "upload_pdf" /\ resp'.failed = "metadata") =>
             /\ ret.op = "store_document_chunks" /\ ret.success
             /\ resp'.rollback \in {"ok", "failed"}
             /\ resp'.rollback = "ok" => ~ HoldsVectorsOf(index', resp'.document_id)
             /\ ~ resp'.success
             /\ resp'.status = 500
             /\ resp'.document_id \notin DOMAIN doc_table'
       /\ (resp'.op = "upload_pdf" /\ resp'.success) =>
             /\ resp'.failed = ""
             /\ resp'.document_id \in DOMAIN doc_table'
             /\ doc_table'[resp'.document_id] = resp'.user_id
      ]_vars

\* C20 witness: an upload_pdf that answered with an error after its insert of
\* the document record failed and its rollback deleted the vectors, while
\* another document's vectors stay in the index.
MetadataRollbackWitness ==
    /\ resp.op = "upload_pdf"
    /\ resp.failed = "metadata"
    /\ resp.rollback = "ok"
    /\ ~ HoldsVectorsOf(index, resp.document_id)
    /\ index # <<>>

\* ---------------------------------------------------- properties of _clean_text
\* C23: the cleaned text has no run of 3 or more newlines, no run of 2 or more
\* spaces, and no line that begins or ends with whitespace.  (Past the call of
\* _clean_text the variable text holds the cleaned text.)
CleanedTextIsNormalised ==
    pc # "call" =>
        /\ \A i \in 1..(Len(text) - 2) :
              ~ (text[i] = "\n" /\ text[i + 1] = "\n" /\ text[i + 2] = "\n")
        /\ \A i \in 1..(Len(text) - 1) : ~ (text[i] = " " /\ text[i + 1] = " ")
        /\ LET lines == SplitLines(text)
           IN  \A i \in 1..Len(lines) : Strip(lines[i]) = lines[i]

\* ------------------------------------------- properties of the hard split
\* The end of the cut an iteration of the hard split made, read back from the
\* start of the next cut (start = end - chunk_overlap).
CutEndOfStep == split_start' + chunk_overlap

\* An iteration of the while loop of _split_large_paragraph.
IsSplitIteration == pc = "split" /\ pc' = "split"

\* C24: a cut of the hard split ends at start + chunk_size, unless the
\* look-ahead window behind that point holds a sentence boundary ([.!?]
\* followed by whitespace): then it ends at the last such boundary.  With no
\* boundary in the window the cut is [start, start + chunk_size).
CutExtendsOnlyToSentenceBoundary ==
    [][IsSplitIteration =>
          LET para   == paragraphs[para_idx]
              base   == split_start + chunk_size
              window == IF base + LookAhead < Len(para) THEN base + LookAhead
                        ELSE Len(para)
              ends   == IF base < Len(para) THEN SentenceEnds(para, base, window)
                        ELSE {}
          IN  CutEndOfStep = IF ends # {} THEN Max(ends) ELSE base
      ]_vars

\* C25: with chunk_overlap < chunk_size the hard split terminates: an
\* iteration runs only while start < len(paragraph), it moves start forward
\* by at least chunk_size - chunk_overlap, and so the number of sub-chunks
\* stays below len(paragraph) / (chunk_size - chunk_overlap) + 1.
HardSplitTerminates ==
    [][IsSplitIteration =>
          LET para == paragraphs[para_idx]
              step == chunk_size - chunk_overlap
          IN  /\ step >= 1
              /\ split_start < Len(para)
              /\ split_start' >= split_start + step
              /\ (Len(sub_chunks') - 1) * step < Len(para)
      ]_vars

\* C25 witness: a hard split leaving its loop after three iterations, the
\* start having passed the end of the paragraph.
HardSplitTerminatesWitness ==
    /\ pc = "split"
    /\ Len(sub_chunks) >= 3
    /\ split_start >= Len(paragraphs[para_idx])

\* Paragraph P is kept by the chunk list cs: it lies wholly in one chunk text,
\* or each of its characters lies in a segment P[a:b] whose stripped text is
\* the text of a chunk.
ParagraphKept(P, cs) ==
    \/ \E k \in 1..Len(cs) : Contains(cs[k].text, P)
    \/ \A j \in 1..Len(P) :
          \E a \in 0..(j - 1), b \in j..Len(P), k \in 1..Len(cs) :
              cs[k].text = Strip(Slice(P, a, b))

\* C27: chunk_text loses no content: when the call has returned, every
\* paragraph of the cleaned text is kept by the chunks, character by
\* character, on the aggregating path and on the hard-split path.
NoContentLost ==
    pc = "done" =>
        \A i \in 1..Len(paragraphs) : ParagraphKept(paragraphs[i], chunks)

\* C27 witness: a finished call with a paragraph that no chunk holds whole,
\* kept piecewise by the sub-chunks of its hard split.
NoContentLostWitness ==
    /\ pc = "done"
    /\ Len(chunks) >= 2
    /\ \E i \in 1..Len(paragraphs) :
          /\ Len(paragraphs[i]) > chunk_size
          /\ \A k \in 1..Len(chunks) : ~ Contains(chunks[k].text, paragraphs[i])
          /\ ParagraphKept(paragraphs[i], chunks)

\* The offset in the paragraph up to which sub-chunk c holds its characters.
CoveredUpTo(c, para) ==
    LET e == c.end_char - current_start
    IN  IF e < Len(para) THEN e ELSE Len(para)

\* C28: every sub-chunk of a hard split after the first holds at least one
\* character of the paragraph beyond the end of the sub-chunk before it.
NoRedundantSubChunk ==
    pc = "split" =>
        \A k \in 2..Len(sub_chunks) :
            CoveredUpTo(sub_chunks[k], paragraphs[para_idx])
                > CoveredUpTo(sub_chunks[k - 1], paragraphs[para_idx])

\* The step in which the store_document_chunks call in progress upserts its
\* last batch and returns success.
IsStoreSuccessStep ==
    /\ ingest.pc = "upsert"
    /\ ret'.op = "store_document_chunks"
    /\ ret'.success

\* C21: ingestions of different documents are independent: a call of
\* store_document_chunks that succeeds leaves every vector of every other
\* document in the index as it was, also for the same owner, filename and
\* second.
IngestionsAreIndependent ==
    [][IsStoreSuccessStep =>
          \A id \in DOMAIN index :
              index[id].document_id # ingest.document_id
              => id \in DOMAIN index' /\ index'[id] = index[id]
      ]_vars

\* The vectors the index holds for chunk i of document d of user u.
VectorsOfChunk(u, d, i) ==
    {id \in DOMAIN index :
        /\ index[id].user_id = u
        /\ index[id].document_id = d
        /\ index[id].chunk_id = i}

\* C26: when store_document_chunks returns success for N chunks, it reports
\* vectors_stored = N and the index holds a vector of the document for each
\* chunk_id 0..N-1, also when the embedding backend answered with fewer
\* embeddings than texts.
SuccessStoresOneVectorPerChunk ==
    (ret.op = "store_document_chunks" /\ ret.success) =>
        /\ ret.vectors_stored = ret.chunks
        /\ \A i \in 0..(ret.chunks - 1) :
              VectorsOfChunk(ret.user_id, ret.document_id, i) # {}

\* The chunk ids of document d that a search of user u for q with the widest
\* top_k and min_score 0 can return on the index as it is.
VisibleChunks(u, d, q) ==
    {r.chunk_id :
        r \in UNION {LET res == FormatResults(index, Embed(q), m, 0)
                     IN  {res[j] : j \in {k \in 1..Len(res) : res[k].document_id = d}} :
                     m \in QueryMatches(index, Embed(q), MaxVectors, u)}}

\* C22: once store_document_chunks has returned success for a document, a
\* query of the owner sees every chunk of it: each chunk_id 0..N-1 of the N
\* chunks handed in is among the matches a search can return.
CompletedIngestionIsVisible ==
    (ret.op = "store_document_chunks" /\ ret.success) =>
        \A q \in TextTokens :
            \A i \in 0..(ret.chunks - 1) :
                i \in VisibleChunks(ret.user_id, ret.document_id, q)

\* C29: the delete endpoint keeps the two stores consistent: when it removed
\* the record of document D of the owner, the index holds no vector of
\* (owner, D) any more, and the response reports success.
DeleteKeepsStoresConsistent ==
    [][(/\ resp = NoResp
        /\ resp'.op = "delete_document"
        /\ resp'.document_id \in DOMAIN doc_table
        /\ resp'.document_id \notin DOMAIN doc_table')
       => /\ \A id \in DOMAIN index' :
                ~ (/\ index'[id].user_id = resp'.user_id
                   /\ index'[id].document_id = resp'.document_id)
          /\ resp'.success
      ]_vars

\* C30: search_documents gives search_similar the caller's own top_k and
\* min_score, for every min_score in [0, 1], 0 included, and every
\* top_k >= 1.
SearchEndpointPassesThresholds ==
    resp.op = "search_documents" =>
        /\ resp.passed_top_k = resp.top_k
        /\ resp.passed_min_score = resp.min_score

====
